---- MODULE Spec2Model ----
(***************************************************************************)
(* The psychic poker player: HandProcessor (src/models/hand_processor.py)  *)
(* and Card (src/models/cards.py).  A HandProcessor is built from ten card *)
(* codes, the first five the hand and the last five the top of the deck in *)
(* draw order, and answers which hand categories can be drawn.             *)
(*                                                                         *)
(* A card code is modelled as the sequence of its characters, a Card as    *)
(* the record of its face and suit characters, a Python list as a          *)
(* sequence.  One behaviour is one run of the program: the constructor,    *)
(* then one query on the constructed object, whose fields no method        *)
(* assigns after the constructor.                                          *)
(***************************************************************************)
EXTENDS Integers, Sequences, FiniteSets, TLC

VARIABLES
    hand_n_deck_split,  \* the input after split(): a list of card codes
    pc,                 \* "new", "ready" (constructed) or "AssertionError"
    hand_n_deck_cards,  \* self.hand_n_deck_cards
    hand_cards,         \* self.hand_cards
    deck_cards,         \* self.deck_cards
    op,                 \* the method called on the object, "none" before
    arg,                \* the list of cards passed to it (<<>> if none)
    ret                 \* what it returned

vars == <<hand_n_deck_split, pc, hand_n_deck_cards, hand_cards, deck_cards,
          op, arg, ret>>

(***************************************************************************)
(* Program constants.                                                      *)
(***************************************************************************)
NumCards == 10
HandSize == 5

FACE_VALUES == {"T", "J", "Q", "K", "A", "2", "3", "4", "5", "6", "7", "8", "9"}
SUIT_VALUES == {"C", "D", "H", "S"}

\* FACE_RANKS[face], for the four keys the dictionary holds
FACE_RANKS(f) ==
    CASE f = "A" -> 1 [] f = "K" -> 13 [] f = "Q" -> 12 [] f = "J" -> 11

(***************************************************************************)
(* Characters: str.upper(), str.isalpha(), str.isdigit(), int().           *)
(***************************************************************************)
\* The alphabet of the modelled inputs: these letters and the digits.
Lower == {"a", "k", "q", "j", "t", "c", "d", "h", "s", "x"}
Upper == {"A", "K", "Q", "J", "T", "C", "D", "H", "S", "X"}
Digits == {"0", "1", "2", "3", "4", "5", "6", "7", "8", "9"}

upper(ch) ==
    CASE ch = "a" -> "A" [] ch = "k" -> "K" [] ch = "q" -> "Q"
      [] ch = "j" -> "J" [] ch = "t" -> "T" [] ch = "c" -> "C"
      [] ch = "d" -> "D" [] ch = "h" -> "H" [] ch = "s" -> "S"
      [] ch = "x" -> "X" [] OTHER -> ch

isdigit(ch) == ch \in Digits

isalpha(ch) == ch \in Lower \cup Upper

int(ch) ==
    CASE ch = "0" -> 0 [] ch = "1" -> 1 [] ch = "2" -> 2 [] ch = "3" -> 3
      [] ch = "4" -> 4 [] ch = "5" -> 5 [] ch = "6" -> 6 [] ch = "7" -> 7
      [] ch = "8" -> 8 [] ch = "9" -> 9

(***************************************************************************)
(* Card.                                                                   *)
(***************************************************************************)
\* The assertions of Card.__init__: does Card(value) construct?
CardValid(value) ==
    /\ Len(value) = 2
    /\ upper(value[1]) \in FACE_VALUES
    /\ upper(value[2]) \in SUIT_VALUES

\* The object Card(value), for a value that passes the assertions
Card(value) == [face |-> value[1], suit |-> value[2]]

is_face_card(card) == isalpha(card.face) /\ upper(card.face) # "T"

is_number_card(card) == isdigit(card.face) \/ upper(card.face) = "T"

rank_ace_high(card) ==
    IF is_face_card(card)
    THEN (IF upper(card.face) = "A" THEN 14 ELSE FACE_RANKS(upper(card.face)))
    ELSE IF isdigit(card.face) THEN int(card.face) ELSE 10

rank(card) ==
    IF is_face_card(card)
    THEN FACE_RANKS(upper(card.face))
    ELSE IF isdigit(card.face) THEN int(card.face) ELSE 10

\* Card.__eq__
CardEq(a, b) == a.face = b.face /\ a.suit = b.suit

(***************************************************************************)
(* Python list helpers.                                                    *)
(***************************************************************************)
Min(S) == CHOOSE x \in S : \A y \in S : x <= y

Max(S) == CHOOSE x \in S : \A y \in S : x >= y

\* card in cards (list membership goes through Card.__eq__)
contains(cards, card) == \E i \in DOMAIN cards : CardEq(cards[i], card)

\* cards.index(card), 0-based; the card is in the list wherever this is used
list_index(cards, card) ==
    Min({i \in DOMAIN cards : CardEq(cards[i], card)}) - 1

\* cards[start : start + n] for a 0-based start, as Python clips it
slice(cards, start, n) ==
    SubSeq(cards, start + 1, IF start + n < Len(cards) THEN start + n ELSE Len(cards))

\* a dictionary of lists: its entries in insertion order, each a key and a list
values(dict) == [i \in DOMAIN dict |-> dict[i].cards]

\* one step of the grouping loops: append card to the list under key
dict_append(dict, key, card) ==
    LET d1 == IF \E i \in DOMAIN dict : dict[i].key = key
              THEN dict
              ELSE Append(dict, [key |-> key, cards |-> <<>>])
    IN [i \in DOMAIN d1 |->
          IF d1[i].key = key
          THEN [key |-> key, cards |-> Append(d1[i].cards, card)]
          ELSE d1[i]]

(***************************************************************************)
(* HandProcessor: grouping primitives.                                     *)
(***************************************************************************)
RECURSIVE same_suit_loop(_, _)
same_suit_loop(cards, suit_cards_dict) ==
    IF cards = <<>>
    THEN suit_cards_dict
    ELSE same_suit_loop(Tail(cards),
             dict_append(suit_cards_dict, Head(cards).suit, Head(cards)))

get_same_suit_cards(cards) == same_suit_loop(cards, <<>>)

RECURSIVE same_face_loop(_, _)
same_face_loop(cards, face_cards_dict) ==
    IF cards = <<>>
    THEN face_cards_dict
    ELSE same_face_loop(Tail(cards),
             dict_append(face_cards_dict, Head(cards).face, Head(cards)))

get_same_face_cards(cards) == same_face_loop(cards, <<>>)

\* sorted(cards, key=attrgetter('rank')): a stable sort
RECURSIVE sorted_by_rank(_)
sorted_by_rank(cards) ==
    IF cards = <<>>
    THEN <<>>
    ELSE LET n == Len(cards)
             last == cards[n]
             front == sorted_by_rank(SubSeq(cards, 1, n - 1))
             keep == Cardinality({i \in DOMAIN front : rank(front[i]) <= rank(last)})
         IN SubSeq(front, 1, keep) \o <<last>> \o SubSeq(front, keep + 1, n - 1)

\* the test of lines 65-67: may card join the run cc_list?
joins_run(card, cc_list) ==
    LET cc_ranks == {rank(cc_list[i]) : i \in DOMAIN cc_list}
    IN /\ rank(card) \notin cc_ranks
       /\ \/ rank(card) + 1 = Min(cc_ranks)
          \/ rank(card) - 1 = Max(cc_ranks)

RECURSIVE consecutive_loop(_, _)
consecutive_loop(cards, consecutive_cards_set_list) ==
    IF cards = <<>>
    THEN consecutive_cards_set_list
    ELSE LET card == Head(cards)
             hits == {i \in DOMAIN consecutive_cards_set_list :
                         joins_run(card, consecutive_cards_set_list[i])}
         IN IF hits = {}
            THEN consecutive_loop(Tail(cards),
                     Append(consecutive_cards_set_list, <<card>>))
            ELSE consecutive_loop(Tail(cards),
                     [consecutive_cards_set_list EXCEPT
                          ![Min(hits)] = Append(@, card)])

get_consecutive_cards_unsorted(cards) == consecutive_loop(cards, <<>>)

get_consecutive_cards(cards) == consecutive_loop(sorted_by_rank(cards), <<>>)

(***************************************************************************)
(* HandProcessor: draw feasibility.                                        *)
(***************************************************************************)
\* the pair (hand_cards, deck_cards) of get_hand_deck_required_cards
required_hand_cards(cards) == SelectSeq(cards, LAMBDA c : contains(hand_cards, c))

required_deck_cards(cards) == SelectSeq(cards, LAMBDA c : ~contains(hand_cards, c))

get_farthest_deck_card_location_min(required) ==
    LET locations == {list_index(deck_cards, required[i]) + 1 : i \in DOMAIN required}
    IN IF locations # {} THEN Min(locations) ELSE 0

get_farthest_deck_card_location(required) ==
    LET locations == {list_index(deck_cards, required[i]) + 1 : i \in DOMAIN required}
    IN IF locations # {} THEN Max(locations) ELSE 0

get_number_of_discardable_hand_cards(required_cards) == 5 - Len(required_cards)

draw_possibility_off_by_one(required_cards) ==
    LET farthest_location ==
            get_farthest_deck_card_location(required_deck_cards(required_cards))
    IN IF farthest_location >=
            get_number_of_discardable_hand_cards(required_hand_cards(required_cards))
       THEN FALSE
       ELSE TRUE

draw_possibility(required_cards) ==
    LET farthest_location ==
            get_farthest_deck_card_location(required_deck_cards(required_cards))
    IN IF farthest_location >
            get_number_of_discardable_hand_cards(required_hand_cards(required_cards))
       THEN FALSE
       ELSE TRUE

(***************************************************************************)
(* HandProcessor: the category checks.  A loop over a dictionary's         *)
(* itervalues() that returns True at the first success and False after the *)
(* last failure yields the disjunction over the entries in whatever order  *)
(* the dictionary gives them, and is written as \E.  Only the pair         *)
(* accumulation below depends on that order, and takes it as a parameter.  *)
(***************************************************************************)
\* for index in range(0, len(cards) - 4): draw_possibility(cards[index: index + 5])
some_window_drawable(cards) ==
    \E index \in 0 .. Len(cards) - 5 : draw_possibility(slice(cards, index, 5))

straight_flush_possible ==
    LET same_suit_cards == values(get_same_suit_cards(hand_n_deck_cards))
    IN \E s \in DOMAIN same_suit_cards :
          /\ Len(same_suit_cards[s]) >= 5
          /\ LET consecutive_cards_set_list ==
                     get_consecutive_cards(same_suit_cards[s])
             IN \E r \in DOMAIN consecutive_cards_set_list :
                   /\ Len(consecutive_cards_set_list[r]) >= 5
                   /\ some_window_drawable(consecutive_cards_set_list[r])

times_of_a_kind_possible(times) ==
    LET same_face_cards == values(get_same_face_cards(hand_n_deck_cards))
    IN \E f \in DOMAIN same_face_cards :
          /\ Len(same_face_cards[f]) = times
          /\ draw_possibility(same_face_cards[f])

four_of_a_kind_possible == times_of_a_kind_possible(4)

three_of_a_kind_possible == times_of_a_kind_possible(3)

\* The loop of lines 193-195 only skips: what it leaves behind is its loop
\* variable, at the last value of range(0, len(three_set) - 2).
index_after_loop(three_set) == Len(three_set) - 3

full_house_possibility ==
    LET same_face_cards == values(get_same_face_cards(hand_n_deck_cards))
        three_sets == SelectSeq(same_face_cards, LAMBDA l : Len(l) >= 3)
        two_sets == SelectSeq(same_face_cards, LAMBDA l : Len(l) >= 2)
    IN IF three_sets = <<>> \/ two_sets = <<>>
       THEN FALSE
       ELSE \E t \in DOMAIN three_sets : \E w \in DOMAIN two_sets :
               LET three_set == three_sets[t]
                   two_set == two_sets[w]
                   index == index_after_loop(three_set)
               IN /\ two_set # three_set
                  /\ \E index_ \in 0 .. Len(two_set) - 2 :
                        draw_possibility(slice(two_set, index_, 2)
                                         \o slice(three_set, index, 3))

flush_possibility_short_range ==
    LET same_suit_cards == values(get_same_suit_cards(hand_n_deck_cards))
    IN \E s \in DOMAIN same_suit_cards :
          /\ Len(same_suit_cards[s]) >= 5
          /\ \E index \in 0 .. Len(same_suit_cards[s]) - 6 :
                draw_possibility(slice(same_suit_cards[s], index, 5))

flush_possibility ==
    LET same_suit_cards == values(get_same_suit_cards(hand_n_deck_cards))
    IN \E s \in DOMAIN same_suit_cards :
          /\ Len(same_suit_cards[s]) >= 5
          /\ some_window_drawable(same_suit_cards[s])

straight_possible ==
    LET consecutive_cards_set_list == get_consecutive_cards(hand_n_deck_cards)
    IN \E r \in DOMAIN consecutive_cards_set_list :
          /\ Len(consecutive_cards_set_list[r]) >= 5
          /\ some_window_drawable(consecutive_cards_set_list[r])

\* pair_sets, in the order in which the dictionary is taken to yield them
pair_sets_unordered ==
    SelectSeq(values(get_same_face_cards(hand_n_deck_cards)), LAMBDA l : Len(l) = 2)

\* the orders itervalues() may visit the pair sets in
PairOrders == Permutations(DOMAIN pair_sets_unordered)

RECURSIVE extend_all(_)
extend_all(drawable_pairs) ==
    IF drawable_pairs = <<>>
    THEN <<>>
    ELSE Head(drawable_pairs) \o extend_all(Tail(drawable_pairs))

RECURSIVE pair_loop(_, _)
pair_loop(pair_sets, drawable_pairs) ==
    IF pair_sets = <<>>
    THEN drawable_pairs
    ELSE LET pair_set == Head(pair_sets)
             drawable_cards == extend_all(drawable_pairs)
         IN pair_loop(Tail(pair_sets),
                IF draw_possibility(pair_set \o drawable_cards)
                THEN Append(drawable_pairs, pair_set)
                ELSE drawable_pairs)

pair_possibility(no_of_pairs, order) ==
    LET pair_sets == [i \in DOMAIN pair_sets_unordered |->
                          pair_sets_unordered[order[i]]]
    IN IF Len(pair_sets) < no_of_pairs
       THEN FALSE
       ELSE Len(pair_loop(pair_sets, <<>>)) >= no_of_pairs

one_pair_possibility(order) == pair_possibility(1, order)

two_pair_possibility(order) == pair_possibility(2, order)

best_hand_possible(order) ==
    IF straight_flush_possible THEN "Straight Flush"
    ELSE IF four_of_a_kind_possible THEN "Four Of A Kind"
    ELSE IF full_house_possibility THEN "Full House"
    ELSE IF flush_possibility THEN "Flush"
    ELSE IF straight_possible THEN "Straight"
    ELSE IF three_of_a_kind_possible THEN "Three Of A Kind"
    ELSE IF two_pair_possibility(order) THEN "Two Pair"
    ELSE IF one_pair_possibility(order) THEN "One Pair"
    ELSE "Highest Card"

(***************************************************************************)
(* HandProcessor.__init__.                                                 *)
(***************************************************************************)
init_asserts_no_duplicates_check(split) ==
    /\ Len(split) = 10
    /\ \A i \in DOMAIN split : CardValid(split[i])

\* The assertions of lines 24-33: the count, the duplicates, every Card(value)
init_asserts(split) ==
    /\ Len(split) = 10
    /\ Cardinality({split[i] : i \in DOMAIN split}) = Len(split)
    /\ \A i \in DOMAIN split : CardValid(split[i])

HandProcessorInit ==
    /\ pc = "new"
    /\ IF init_asserts(hand_n_deck_split)
       THEN /\ pc' = "ready"
            /\ hand_n_deck_cards' =
                   [i \in DOMAIN hand_n_deck_split |-> Card(hand_n_deck_split[i])]
            /\ hand_cards' = SubSeq(hand_n_deck_cards', 1, 5)
            /\ deck_cards' = SubSeq(hand_n_deck_cards', 6, Len(hand_n_deck_cards'))
       ELSE /\ pc' = "AssertionError"
            /\ UNCHANGED <<hand_n_deck_cards, hand_cards, deck_cards>>
    /\ UNCHANGED <<hand_n_deck_split, op, arg, ret>>

(***************************************************************************)
(* The queries on a constructed object.  None of them assigns to a field.  *)
(***************************************************************************)
\* the cards of a list at the positions P, in the list's order
Sublist(cards, P) ==
    LET nth(k) == CHOOSE i \in P : Cardinality({j \in P : j <= i}) = k
    IN [k \in 1 .. Cardinality(P) |-> cards[nth(k)]]

Called(name, cards, value) ==
    /\ pc = "ready"
    /\ op = "none"
    /\ op' = name
    /\ arg' = cards
    /\ ret' = value
    /\ UNCHANGED <<hand_n_deck_split, pc, hand_n_deck_cards, hand_cards, deck_cards>>

CallDrawPossibility ==
    \E P \in SUBSET DOMAIN hand_n_deck_cards :
        LET required_cards == Sublist(hand_n_deck_cards, P)
        IN Called("draw_possibility", required_cards, draw_possibility(required_cards))

CallGetConsecutiveCards ==
    \E P \in SUBSET DOMAIN hand_n_deck_cards :
        LET cards == Sublist(hand_n_deck_cards, P)
        IN Called("get_consecutive_cards", cards, get_consecutive_cards(cards))

CallStraightFlushPossible ==
    Called("straight_flush_possible", <<>>, straight_flush_possible)

CallFourOfAKindPossible ==
    Called("four_of_a_kind_possible", <<>>, four_of_a_kind_possible)

CallFullHousePossibility ==
    Called("full_house_possibility", <<>>, full_house_possibility)

CallFlushPossibility ==
    Called("flush_possibility", <<>>, flush_possibility)

CallStraightPossible ==
    Called("straight_possible", <<>>, straight_possible)

CallThreeOfAKindPossible ==
    Called("three_of_a_kind_possible", <<>>, three_of_a_kind_possible)

CallTwoPairPossibility ==
    \E order \in PairOrders :
        Called("two_pair_possibility", <<>>, two_pair_possibility(order))

CallOnePairPossibility ==
    \E order \in PairOrders :
        Called("one_pair_possibility", <<>>, one_pair_possibility(order))

CallBestHandPossible ==
    \E order \in PairOrders :
        Called("best_hand_possible", <<>>, best_hand_possible(order))

(***************************************************************************)
(* The inputs.                                                             *)
(***************************************************************************)
MaxSwaps == 1
MaxEdits == 1
NumSuits == 2

\* ten codes from their face and suit characters
Deal(faces, suits) == [i \in 1 .. 10 |-> <<faces[i], suits[i]>>]

FourQueens ==
    Deal(<<"T", "J", "Q", "Q", "Q", "Q", "K", "A", "2", "6">>,
         <<"H", "H", "C", "D", "S", "H", "H", "H", "S", "S">>)

FourThrees ==
    Deal(<<"2", "2", "3", "3", "3", "2", "3", "6", "9", "T">>,
         <<"H", "S", "H", "S", "C", "D", "D", "C", "C", "H">>)

FullHouseDeal ==
    Deal(<<"2", "2", "3", "3", "3", "2", "9", "3", "6", "T">>,
         <<"H", "S", "H", "S", "C", "D", "C", "D", "C", "H">>)

FlushDeal ==
    Deal(<<"2", "A", "5", "A", "7", "A", "6", "9", "4", "3">>,
         <<"H", "D", "H", "C", "H", "H", "H", "H", "H", "C">>)

StraightDeal ==
    Deal(<<"A", "2", "9", "3", "K", "5", "4", "K", "A", "4">>,
         <<"C", "D", "C", "S", "D", "S", "D", "S", "S", "C">>)

ThreeDeal ==
    Deal(<<"K", "A", "2", "3", "4", "K", "2", "T", "2", "A">>,
         <<"S", "H", "H", "C", "H", "C", "C", "C", "D", "S">>)

TwoPairDeal ==
    Deal(<<"A", "2", "9", "A", "3", "Q", "K", "J", "J", "K">>,
         <<"H", "C", "S", "D", "C", "H", "S", "S", "D", "D">>)

OnePairDeal ==
    Deal(<<"6", "9", "8", "2", "7", "2", "T", "4", "9", "A">>,
         <<"C", "C", "C", "D", "C", "H", "C", "C", "S", "H">>)

HighCardDeal ==
    Deal(<<"3", "5", "2", "Q", "T", "6", "K", "9", "A", "Q">>,
         <<"D", "S", "H", "D", "D", "S", "H", "H", "D", "H">>)

GoldenTwoPair ==
    Deal(<<"2", "3", "5", "9", "K", "2", "3", "4", "4", "K">>,
         <<"H", "D", "S", "C", "D", "C", "H", "S", "D", "S">>)

FourSplitDeal ==
    Deal(<<"2", "K", "K", "7", "8", "2", "2", "9", "T", "2">>,
         <<"C", "H", "D", "S", "D", "D", "H", "C", "C", "S">>)

DeckStraightDeal ==
    Deal(<<"3", "9", "J", "K", "9", "2", "3", "4", "5", "6">>,
         <<"H", "C", "D", "S", "D", "C", "D", "S", "H", "C">>)

Scenarios ==
    {FourQueens, FourThrees, FullHouseDeal, FlushDeal, StraightDeal, ThreeDeal,
     TwoPairDeal, OnePairDeal, HighCardDeal, GoldenTwoPair, FourSplitDeal,
     DeckStraightDeal}

\* the scenarios with up to n pairs of positions exchanged
RECURSIVE Swapped(_)
Swapped(n) ==
    IF n = 0
    THEN Scenarios
    ELSE LET prev == Swapped(n - 1)
         IN prev \cup {[d EXCEPT ![i] = d[j], ![j] = d[i]] :
                          d \in prev, i \in 1 .. 10, j \in 1 .. 10}

\* ranks 1..10 in input order, every assignment of the first NumSuits suits
SuitDeals ==
    LET suits == SubSeq(<<"C", "D", "H", "S">>, 1, NumSuits)
    IN {Deal(<<"A", "2", "3", "4", "5", "6", "7", "8", "9", "T">>, ss) :
           ss \in [1 .. 10 -> {suits[i] : i \in DOMAIN suits}]}

Deals == Swapped(MaxSwaps) \cup SuitDeals

\* codes written over one position of an input, or appended to it
EditCodes ==
    {<<"Q", "H">>, <<"q", "h">>, <<"X", "H">>, <<"1", "H">>, <<"Q", "X">>,
     <<"Q">>, <<"Q", "H", "H">>}

\* FourQueens after up to n edits: a code replaced, the last code dropped,
\* a code appended
RECURSIVE Edited(_)
Edited(n) ==
    IF n = 0
    THEN {FourQueens}
    ELSE LET prev == Edited(n - 1)
         IN prev
            \cup UNION {{[d EXCEPT ![i] = c] : i \in DOMAIN d, c \in EditCodes} :
                           d \in prev}
            \cup {SubSeq(d, 1, Len(d) - 1) : d \in prev}
            \cup {Append(d, c) : d \in prev, c \in EditCodes}

InitWith(inputs) ==
    /\ hand_n_deck_split \in inputs
    /\ pc = "new"
    /\ hand_n_deck_cards = <<>>
    /\ hand_cards = <<>>
    /\ deck_cards = <<>>
    /\ op = "none"
    /\ arg = <<>>
    /\ ret = FALSE

Init == InitWith(Scenarios \cup Edited(MaxEdits))

InitDeals == InitWith(Deals)

Queries ==
    \/ CallStraightFlushPossible
    \/ CallFourOfAKindPossible
    \/ CallFullHousePossibility
    \/ CallFlushPossibility
    \/ CallStraightPossible
    \/ CallThreeOfAKindPossible
    \/ CallTwoPairPossibility
    \/ CallOnePairPossibility
    \/ CallBestHandPossible

Next ==
    \/ HandProcessorInit
    \/ CallDrawPossibility
    \/ CallGetConsecutiveCards
    \/ Queries

NextSuits ==
    \/ HandProcessorInit
    \/ CallStraightFlushPossible
    \/ CallFlushPossibility

\* every operation, on the scenarios and on the edited inputs
Spec == Init /\ [][Next]_vars

\* the construction and the two suit-based queries, on the wider family of deals
SpecSuits == InitDeals /\ [][NextSuits]_vars

(***************************************************************************)
(* What the claims speak of, stated on positions of the input: 1..5 is the *)
(* hand, 6..10 the deck, position 5 + k the k-th card drawn.               *)
(***************************************************************************)
Positions == DOMAIN hand_n_deck_cards

HandPositions == {i \in Positions : i <= HandSize}

CardsAt(P) == Sublist(hand_n_deck_cards, P)

\* the positions of the cards of a list of input cards
PositionsOf(cards) ==
    {i \in Positions : \E k \in DOMAIN cards : cards[k] = hand_n_deck_cards[i]}

\* the final hand after discarding the hand cards at D and drawing as many
FinalHand(D) ==
    (HandPositions \ D) \cup {HandSize + k : k \in 1 .. Cardinality(D)}

FinalHands == {FinalHand(D) : D \in SUBSET HandPositions}

\* 1-based deck position of the farthest deck card among P, 0 if none
FarthestDeckPosition(P) ==
    IF P \subseteq HandPositions THEN 0 ELSE Max({i - HandSize : i \in P \ HandPositions})

DiscardBudget(P) == HandSize - Cardinality(P \cap HandPositions)

\* some discard keeps every card at P in the final hand
Obtainable(P) ==
    \E D \in SUBSET HandPositions : D \cap P = {} /\ P \subseteq FinalHand(D)

RanksAt(P) == {rank(hand_n_deck_cards[i]) : i \in P}

FacesAt(P) == {hand_n_deck_cards[i].face : i \in P}

SuitsAt(P) == {hand_n_deck_cards[i].suit : i \in P}

WithFace(P, f) == {i \in P : hand_n_deck_cards[i].face = f}

FiveInARow(P) ==
    /\ Cardinality(P) = 5
    /\ Cardinality(RanksAt(P)) = 5
    /\ Max(RanksAt(P)) - Min(RanksAt(P)) = 4

OneSuit(P) == Cardinality(SuitsAt(P)) = 1

\* does the five-card hand at H hold the category?
Holds(category, H) ==
    CASE category = "Straight Flush" -> FiveInARow(H) /\ OneSuit(H)
      [] category = "Four Of A Kind" ->
            \E f \in FacesAt(H) : Cardinality(WithFace(H, f)) = 4
      [] category = "Full House" ->
            \E f \in FacesAt(H) : \E g \in FacesAt(H) :
                Cardinality(WithFace(H, f)) = 3 /\ Cardinality(WithFace(H, g)) = 2
      [] category = "Flush" -> OneSuit(H)
      [] category = "Straight" -> FiveInARow(H)
      [] category = "Three Of A Kind" ->
            \E f \in FacesAt(H) : Cardinality(WithFace(H, f)) >= 3
      [] category = "Two Pair" ->
            \E f \in FacesAt(H) : \E g \in FacesAt(H) :
                f # g /\ Cardinality(WithFace(H, f)) >= 2
                      /\ Cardinality(WithFace(H, g)) >= 2
      [] category = "One Pair" ->
            \E f \in FacesAt(H) : Cardinality(WithFace(H, f)) >= 2
      [] category = "Highest Card" -> TRUE

Categories ==
    <<"Straight Flush", "Four Of A Kind", "Full House", "Flush", "Straight",
      "Three Of A Kind", "Two Pair", "One Pair", "Highest Card">>

Reachable(category) == \E H \in FinalHands : Holds(category, H)

StrongestReachable ==
    Categories[Min({k \in DOMAIN Categories : Reachable(Categories[k])})]

\* C1: for a valid input best_hand_possible returns the strongest category
\* that some reachable final hand holds.
C1_BestHandIsStrongestReachable ==
    op = "best_hand_possible" => ret = StrongestReachable

\* C2: draw_possibility(R) is True iff the farthest deck position of R is at
\* most 5 minus the number of hand cards in R, and iff some discard of hand
\* cards outside R leaves every card of R in the final hand.
C2_DrawPossibilityIsObtainable ==
    op = "draw_possibility" =>
        LET P == PositionsOf(arg)
        IN /\ ret <=> (FarthestDeckPosition(P) <= DiscardBudget(P))
           /\ ret <=> Obtainable(P)

\* C2's case: a required set that uses its discard budget exactly
C2_Witness ==
    /\ op = "draw_possibility"
    /\ ret = TRUE
    /\ FarthestDeckPosition(PositionsOf(arg)) = DiscardBudget(PositionsOf(arg))
    /\ FarthestDeckPosition(PositionsOf(arg)) >= 2
    /\ Cardinality(PositionsOf(arg)) < 5

\* the input breaks a precondition of the constructor
WrongCount == Len(hand_n_deck_split) # NumCards

SameFaceAndSuit(a, b) ==
    Len(a) = 2 /\ Len(b) = 2 /\ a[1] = b[1] /\ a[2] = b[2]

HasDuplicate ==
    \E i \in DOMAIN hand_n_deck_split : \E j \in DOMAIN hand_n_deck_split :
        i # j /\ SameFaceAndSuit(hand_n_deck_split[i], hand_n_deck_split[j])

BadCode(value) ==
    \/ Len(value) # 2
    \/ upper(value[1]) \notin FACE_VALUES
    \/ upper(value[2]) \notin SUIT_VALUES

HasBadCode == \E i \in DOMAIN hand_n_deck_split : BadCode(hand_n_deck_split[i])

InvalidInput == WrongCount \/ HasDuplicate \/ HasBadCode

C4_DrawPossibilityMonotonic ==
    (op = "draw_possibility" /\ ret = TRUE) =>
        \A Q \in SUBSET DOMAIN arg : draw_possibility(Sublist(arg, Q))

\* C4's case: a drawable set of hand and deck cards with proper sublists
C4_Witness ==
    /\ op = "draw_possibility"
    /\ ret = TRUE
    /\ Len(required_hand_cards(arg)) >= 2
    /\ Len(required_deck_cards(arg)) >= 2

FourQueenCards ==
    <<[face |-> "Q", suit |-> "C"], [face |-> "Q", suit |-> "D"],
      [face |-> "Q", suit |-> "S"], [face |-> "Q", suit |-> "H"]>>

FiveHearts ==
    <<[face |-> "T", suit |-> "H"], [face |-> "J", suit |-> "H"],
      [face |-> "Q", suit |-> "H"], [face |-> "K", suit |-> "H"],
      [face |-> "A", suit |-> "H"]>>

\* C5: on "TH JH QC QD QS QH KH AH 2S 6S" the five hearts are no run (the
\* ace has rank 1 and stands alone), the straight flush check is False, the
\* four queens are drawable and the best hand is "Four Of A Kind".
C5_FourQueensScenario ==
    hand_n_deck_split = FourQueens =>
        /\ (op = "get_consecutive_cards" /\ arg = FiveHearts) =>
              ret = << <<FiveHearts[5]>>, SubSeq(FiveHearts, 1, 4) >>
        /\ op = "straight_flush_possible" => ret = FALSE
        /\ op = "four_of_a_kind_possible" => ret = TRUE
        /\ (op = "draw_possibility" /\ arg = FourQueenCards) => ret = TRUE
        /\ op = "best_hand_possible" => ret = "Four Of A Kind"

C5_Witness ==
    /\ hand_n_deck_split = FourQueens
    /\ op = "best_hand_possible"
    /\ ret = "Four Of A Kind"

\* a three-card subset of one face and a two-card subset of another
TripleAndPair(P) ==
    \E T \in SUBSET P :
        /\ Cardinality(T) = 3
        /\ Cardinality(FacesAt(T)) = 1
        /\ Cardinality(P \ T) = 2
        /\ Cardinality(FacesAt(P \ T)) = 1
        /\ FacesAt(T) # FacesAt(P \ T)

\* C6: full_house_possibility is True iff some three cards of one face and
\* two cards of another face are jointly drawable.
C6_FullHouseIffSomeTripleAndPair ==
    op = "full_house_possibility" =>
        (ret <=> \E P \in SUBSET Positions :
                    TripleAndPair(P) /\ draw_possibility(CardsAt(P)))

\* the cards of all the runs, run after run
RECURSIVE Flatten(_)
Flatten(runs) ==
    IF runs = <<>> THEN <<>> ELSE Head(runs) \o Flatten(Tail(runs))

\* C7: the runs of get_consecutive_cards partition the input list, and in
\* every run the ranks ascend by exactly one from card to card.
C7_RunsPartitionAndAscend ==
    op = "get_consecutive_cards" =>
        /\ Len(Flatten(ret)) = Len(arg)
        /\ \A k \in DOMAIN arg :
              Cardinality({i \in DOMAIN Flatten(ret) : Flatten(ret)[i] = arg[k]}) = 1
        /\ \A r \in DOMAIN ret :
              /\ ret[r] # <<>>
              /\ \A i \in 1 .. Len(ret[r]) - 1 :
                    rank(ret[r][i + 1]) = rank(ret[r][i]) + 1

\* C7's case: two cards of one rank, so more than one run, one of them long
C7_Witness ==
    /\ op = "get_consecutive_cards"
    /\ \E i \in DOMAIN arg : \E j \in DOMAIN arg :
          i # j /\ rank(arg[i]) = rank(arg[j])
    /\ \E r \in DOMAIN ret : Len(ret[r]) >= 4
    /\ \E i \in 1 .. Len(arg) - 1 : rank(arg[i]) > rank(arg[i + 1])

\* C8: straight_possible is True whenever some five input cards of five
\* consecutive ranks are jointly drawable.
C8_StraightWheneverFiveInARowDrawable ==
    op = "straight_possible" =>
        ((\E P \in SUBSET Positions :
              FiveInARow(P) /\ draw_possibility(CardsAt(P))) => ret = TRUE)

\* two face groups of exactly two cards whose four cards are jointly drawable
SomeTwoPairsDrawable ==
    \E i \in DOMAIN pair_sets_unordered : \E j \in DOMAIN pair_sets_unordered :
        /\ i # j
        /\ draw_possibility(pair_sets_unordered[i] \o pair_sets_unordered[j])

\* C9: the pair accumulation gives the same answer in whatever order the
\* face groups of two cards are visited, and two_pair_possibility is True
\* whenever two such groups are jointly drawable.
C9_PairAccumulationOrderIndependent ==
    /\ op = "two_pair_possibility" =>
          /\ \A order \in PairOrders : two_pair_possibility(order) = ret
          /\ SomeTwoPairsDrawable => ret = TRUE
    /\ op = "one_pair_possibility" =>
          \A order \in PairOrders : one_pair_possibility(order) = ret
    /\ op = "best_hand_possible" =>
          \A order \in PairOrders : best_hand_possible(order) = ret

\* C10: flush_possibility is True iff some five input cards of one suit are
\* jointly drawable.
C10_FlushIffFiveOfASuitDrawable ==
    op = "flush_possibility" =>
        (ret <=> \E P \in SUBSET Positions :
                    /\ Cardinality(P) = 5
                    /\ OneSuit(P)
                    /\ draw_possibility(CardsAt(P)))

\* is the list a run of neighbours of the suit group it comes from?
IsWindowOfSuitGroup(P) ==
    \A i \in Positions :
        (Min(P) < i /\ i < Max(P)
            /\ hand_n_deck_cards[i].suit \in SuitsAt(P)) => i \in P

\* C10's case: a suit of six or more cards, the flush found, and a drawable
\* five of the suit that is no window of the group
C10_Witness ==
    /\ op = "flush_possibility"
    /\ ret = TRUE
    /\ \E P \in SUBSET Positions :
          /\ Cardinality(P) = 5
          /\ OneSuit(P)
          /\ draw_possibility(CardsAt(P))
          /\ ~IsWindowOfSuitGroup(P)

====
